---- MODULE Spec2Model ----
(***************************************************************************)
(* The resilient batch-scanning engine of niche-research-automation:       *)
(* full_scan.py (main, get_keyword_data, load/save_checkpoint) and         *)
(* niche_scanner.py (scan_all_keywords, save_final_results and the same    *)
(* helpers).  One behaviour follows one of the two scripts over several    *)
(* process runs: a run starts from whatever checkpoint file is on disk,    *)
(* fetches keyword after keyword from the rate-limited remote API, and     *)
(* ends by completion, by a KeyboardInterrupt or by an uncaught error.     *)
(*                                                                         *)
(* Python values.  keyword and category are non-empty strings; numeric    *)
(* fields are integers (growth in percent, recommendation_score in        *)
(* hundredths, the series of the model are chosen so that both are exact); *)
(* related_queries, rising_queries and error hold None, NaN or a str,      *)
(* written None, NaN and Str(s) with s a sequence of characters (or of     *)
(* query tokens).  A CSV file is a sequence of rows of cells; pandas'      *)
(* to_csv / read_csv are library calls and are taken as atomic.            *)
(***************************************************************************)
EXTENDS Integers, Sequences, FiniteSets, TLC

\* ------------------------------------------------------------------ bounds
NumKeywords   == 11  \* length of the keyword queue of a long scan
ShortQueue    == 2   \* length of the keyword queue of a short scan
MaxInterrupts == 2   \* KeyboardInterrupts per behaviour
MaxFaults     == 1   \* long scan: empty responses, and rate-limited responses
MaxFetchFaults == 1  \* short scan: failing responses of each kind
MaxRateLimits == 3   \* short scan: rate-limited responses
MaxInterest   == 102 \* helper calls: largest sample of a series
MaxTasks      == 2   \* helper calls: longest keyword list of each source
MaxSeriesLen  == 54  \* helper calls: longest series given to get_time_periods

\* ------------------------------------------------------ program constants
FS_REQUEST_DELAY == 18
FS_RETRY_DELAY   == 45
NS_REQUEST_DELAY == 15
NS_RETRY_DELAY   == 30
MAX_RETRIES      == 3
RELATED_DELAY    == 2
CHECKPOINT_INTERVAL == 5
NS_CHECKPOINT_EVERY == 10
MIN_GROWTH_THRESHOLD == 300
MAX_GROWTH_CAP   == 10000
ERROR_TRUNCATE   == 50
\* WEIGHTS, in hundredths
W_1mo == 30
W_3mo == 25
W_6mo == 20
W_1yr == 15
W_5yr == 10

VARIABLES
  script,        \* "full_scan" or "niche_scanner": the script every run executes
  queue,         \* the keyword queue (all_keywords / flattened SEED_KEYWORDS)
  trend,         \* what the remote API holds for the keywords (fixed per behaviour)
  ckptFile,      \* CHECKPOINT_FILE on disk
  outFile,       \* OUTPUT_FILE on disk
  pc,            \* position of the process; "stopped" when no process runs
  status,        \* how the last process ended: idle, interrupted, completed, crashed
  results,       \* results / all_results
  processed,     \* processed / processed_keywords, as returned by load_checkpoint
  remaining,     \* full_scan: the tasks not in processed
  i,             \* loop index: into remaining (full_scan) or into queue (niche_scanner)
  processed_count, \* niche_scanner: running count
  result,        \* get_keyword_data: the result dict being built
  attempt,       \* get_keyword_data: loop variable of range(MAX_RETRIES)
  called,        \* history: keywords get_keyword_data was called with in this run
  attemptLog,    \* history: the response to each primary call for the current keyword
  sinceCall,     \* history: sleeps since the last remote call of this run
  interrupts,    \* history: KeyboardInterrupts delivered
  injected,      \* history: failing responses of each kind given so far
  limits,        \* how many failing responses of each kind the remote API gives
  fresh,         \* history: this run started without a checkpoint file
  done,          \* history: tasks of this run that passed the checkpoint step
  loaded,        \* history: rows this run loaded from the checkpoint file
  lastPc,        \* history: where the last process was when it ended
  relatedLog,    \* history: the response to the related_queries call of the keyword
  written,       \* history: this run has written the output file
  call,          \* a helper called on its own: the function and its arguments
  ret            \* what that call returned

vars == <<script, queue, trend, ckptFile, outFile, pc, status, results,
          processed, remaining, i, processed_count, result, attempt, called,
          attemptLog, sinceCall, interrupts, injected, limits, fresh,
          done, loaded, lastPc, relatedLog, written, call, ret>>

\* ------------------------------------------------------------ Python values
None   == [t |-> "None"]
NaN    == [t |-> "nan"]
Str(s) == [t |-> "str", s |-> s]

\* bool(v) for a value of a text field
Truthy(v) == IF v.t = "str" THEN Len(v.s) > 0 ELSE v.t = "nan"

Min(a, b) == IF a <= b THEN a ELSE b

RECURSIVE Repeat(_, _)
Repeat(c, n) == IF n = 0 THEN <<>> ELSE <<c>> \o Repeat(c, n - 1)

\* s[:n]
Take(s, n) == SubSeq(s, 1, Min(n, Len(s)))

\* sub in s
Contains(s, sub) ==
  \E k \in 0..(Len(s) - Len(sub)) : SubSeq(s, k + 1, k + Len(sub)) = sub

\* str.lower() on a sequence of characters
LowerChar(c) ==
  CASE c = "R" -> "r" [] c = "A" -> "a" [] c = "T" -> "t" [] c = "E" -> "e"
    [] OTHER -> c
LowerMsg(s) == [k \in 1..Len(s) |-> LowerChar(s[k])]

\* str.lower() on a keyword
Lower(kw) ==
  CASE kw = "PCOS" -> "pcos" [] kw = "SIBO" -> "sibo" [] kw = "GABA" -> "gaba"
    [] OTHER -> kw

\* ------------------------------------------------------------- seed table
\* A selection of HEALTH_KEYWORDS / SEED_KEYWORDS in the order the scripts
\* iterate the table (category by category).
SEED_KEYWORDS ==
  << [keyword |-> "zinc",          category |-> "supplements"],
     [keyword |-> "PCOS",          category |-> "womens_health"],
     [keyword |-> "vitex",         category |-> "womens_health"],
     [keyword |-> "SIBO",          category |-> "gut_health"],
     [keyword |-> "bone broth",    category |-> "gut_health"],
     [keyword |-> "cortisol",      category |-> "sleep_stress"],
     [keyword |-> "GABA",          category |-> "sleep_stress"],
     [keyword |-> "gua sha",       category |-> "natural_beauty"],
     [keyword |-> "natural botox", category |-> "natural_beauty"],
     [keyword |-> "tongkat ali",   category |-> "mens_optimization"],
     [keyword |-> "alpha gpc",     category |-> "mens_optimization"],
     [keyword |-> "shilajit",      category |-> "mens_optimization"],
     [keyword |-> "turkesterone",  category |-> "mens_optimization"] >>

\* (variant: the keyword is compared as it is spelled)
RECURSIVE Deduplicate_CaseSensitive(_, _)
Deduplicate_CaseSensitive(all, seen) ==
  IF all = <<>> THEN <<>>
  ELSE IF Head(all).keyword \in seen
       THEN Deduplicate_CaseSensitive(Tail(all), seen)
       ELSE <<Head(all)>> \o
            Deduplicate_CaseSensitive(Tail(all), seen \cup {Head(all).keyword})

\* full_scan.main, lines 222-230: case-insensitive de-duplication
RECURSIVE Deduplicate(_, _)
Deduplicate(all, seen) ==
  IF all = <<>> THEN <<>>
  ELSE IF Lower(Head(all).keyword) \in seen
       THEN Deduplicate(Tail(all), seen)
       ELSE <<Head(all)>> \o
            Deduplicate(Tail(all), seen \cup {Lower(Head(all).keyword)})

\* full_scan.main, lines 205-230: the health keywords, then the discovered
\* ones, de-duplicated
all_keywords(health, discovered) == Deduplicate(health \o discovered, {})

\* the queue of a script for a table of n seeds (no discovered_keywords.csv)
BuildQueue(s, n) ==
  IF s = "full_scan" THEN all_keywords(SubSeq(SEED_KEYWORDS, 1, n), <<>>)
  ELSE SubSeq(SEED_KEYWORDS, 1, n)

Position(kw) == CHOOSE k \in 1..Len(SEED_KEYWORDS) : SEED_KEYWORDS[k].keyword = kw

\* ---------------------------------------------------------- remote data
\* interest_over_time: weekly samples, oldest first
FlatSeries  == [k \in 1..60 |-> 10]
RiseSeries  == [k \in 1..60 |-> IF k = 60 THEN 80 ELSE IF k <= 20 THEN 20 ELSE 50]
ShortSeries == <<0, 5, 10>>

SeriesFor(kw) ==
  CASE trend = "flat" -> FlatSeries
    [] trend = "rise" -> RiseSeries
    [] OTHER -> IF Position(kw) % 3 = 1 THEN RiseSeries
                ELSE IF Position(kw) % 3 = 2 THEN FlatSeries ELSE ShortSeries

\* related_queries(): the entry of the keyword, or "absent" when the keyword
\* is not in the returned dict
\* (a table is None or a frame with a query column)
NoTable      == [isNone |-> TRUE, query |-> <<>>]
Table(q)     == [isNone |-> FALSE, query |-> q]
RelatedFor(kw) ==
  IF Position(kw) % 3 = 1
    THEN [in |-> TRUE, top |-> Table(<<"q1", "q2", "q3", "q4", "q5", "q6">>),
          rising |-> Table(<<"r1">>)]
  ELSE IF Position(kw) % 3 = 2
    THEN [in |-> TRUE, top |-> Table(<<"q1", "q2">>), rising |-> NoTable]
  ELSE [in |-> FALSE, top |-> NoTable, rising |-> NoTable]

\* str(e) of the exceptions the primary call raises
MsgTimeout == <<"t", "i", "m", "e", "o", "u", "t">>
MsgLong    == <<"e", "r", "r", ":">> \o Repeat("x", 56)
Msg429     == <<"H", "T", "T", "P", " ", "4", "2", "9">>
MsgRate    == <<"R", "A", "T", "E">>
MsgLateRate == Repeat("x", 52) \o <<"r", "a", "t", "e">>
Messages == {MsgTimeout, MsgLong, Msg429, MsgRate, MsgLateRate}

\* --------------------------------------------------------- pure helpers
REQUEST_DELAY == IF script = "full_scan" THEN FS_REQUEST_DELAY ELSE NS_REQUEST_DELAY
RETRY_DELAY   == IF script = "full_scan" THEN FS_RETRY_DELAY ELSE NS_RETRY_DELAY

\* (variant: the result is not clamped)
calculate_growth_NoCap(current, past) ==
  IF past <= 0 THEN (IF current > 0 THEN MAX_GROWTH_CAP ELSE 0)
  ELSE ((current - past) * 100) \div past

\* growth in percent; the division is exact for the series of the model
calculate_growth(current, past) ==
  IF past <= 0 THEN (IF current > 0 THEN MAX_GROWTH_CAP ELSE 0)
  ELSE Min(((current - past) * 100) \div past, MAX_GROWTH_CAP)

\* (variant: every horizon looks one sample too far back)
get_time_periods_OffByOne(df) ==
  LET L == Len(df)
      Ago(n) == IF L > n THEN df[L - n] ELSE df[1]
  IN  [current |-> df[L], ago_1mo |-> Ago(5), ago_3mo |-> Ago(13),
       ago_6mo |-> Ago(26), ago_1yr |-> Ago(52), ago_5yr |-> df[1]]

\* df[keyword].iloc[-n] on a series of length L is the sample L - n + 1 (1-based)
get_time_periods(df) ==
  LET L == Len(df)
      Ago(n) == IF L > n THEN df[L - n + 1] ELSE df[1]
  IN  [current |-> df[L], ago_1mo |-> Ago(5), ago_3mo |-> Ago(13),
       ago_6mo |-> Ago(26), ago_1yr |-> Ago(52), ago_5yr |-> df[1]]

\* a Python dict of growths: the (key, value) pairs in insertion order, keys
\* distinct, values in thousandths of a percent
\* g.get(key, default)
DictGet(g, key, default) ==
  IF \E k \in 1..Len(g) : g[k].key = key
  THEN g[CHOOSE k \in 1..Len(g) : g[k].key = key].val
  ELSE default

\* (variant: the longer the horizon, the higher the weight)
WEIGHTS_LongBiased ==
  ("1mo" :> W_5yr) @@ ("3mo" :> W_1yr) @@ ("6mo" :> W_6mo) @@
  ("1yr" :> W_3mo) @@ ("5yr" :> W_1mo)

\* the weight table, in hundredths
WEIGHTS ==
  ("1mo" :> W_1mo) @@ ("3mo" :> W_3mo) @@ ("6mo" :> W_6mo) @@
  ("1yr" :> W_1yr) @@ ("5yr" :> W_5yr)

\* round(x, 2) of x given in hundred-thousandths: the nearest hundredth, a
\* decimal tie going to the even neighbour
Round2(x) ==
  LET q == x \div 1000
      r == x % 1000
  IN  IF r < 500 THEN q
      ELSE IF r > 500 THEN q + 1
      ELSE IF q % 2 = 0 THEN q ELSE q + 1

\* (variant: the values are read in the order they were inserted)
calculate_score_Positional(g) ==
  LET At(k) == IF k <= Len(g) THEN g[k].val ELSE 0
  IN  Round2(At(1) * WEIGHTS["1mo"] + At(2) * WEIGHTS["3mo"] + At(3) * WEIGHTS["6mo"] +
             At(4) * WEIGHTS["1yr"] + At(5) * WEIGHTS["5yr"])

\* recommendation score in hundredths: round(.., 2) of the weighted sum
calculate_score(g) ==
  Round2(DictGet(g, "growth_1mo", 0) * WEIGHTS["1mo"] +
         DictGet(g, "growth_3mo", 0) * WEIGHTS["3mo"] +
         DictGet(g, "growth_6mo", 0) * WEIGHTS["6mo"] +
         DictGet(g, "growth_1yr", 0) * WEIGHTS["1yr"] +
         DictGet(g, "growth_5yr", 0) * WEIGHTS["5yr"])

\* (variant: a growth equal to the threshold does not pass)
passes_threshold_Strict(r) ==
  IF Truthy(r.error) THEN FALSE
  ELSE \/ r.growth_5yr > MIN_GROWTH_THRESHOLD
       \/ r.growth_1yr > MIN_GROWTH_THRESHOLD
       \/ r.growth_6mo > MIN_GROWTH_THRESHOLD
       \/ r.growth_3mo > MIN_GROWTH_THRESHOLD
       \/ r.growth_1mo > MIN_GROWTH_THRESHOLD

passes_threshold(r) ==
  IF Truthy(r.error) THEN FALSE
  ELSE \/ r.growth_5yr >= MIN_GROWTH_THRESHOLD
       \/ r.growth_1yr >= MIN_GROWTH_THRESHOLD
       \/ r.growth_6mo >= MIN_GROWTH_THRESHOLD
       \/ r.growth_3mo >= MIN_GROWTH_THRESHOLD
       \/ r.growth_1mo >= MIN_GROWTH_THRESHOLD

\* '; '.join(table['query'].head(5).tolist())
RECURSIVE Join(_)
Join(q) ==
  IF q = <<>> THEN <<>>
  ELSE IF Len(q) = 1 THEN q
  ELSE <<Head(q), "; ">> \o Join(Tail(q))
JoinHead5(table) == Str(Join(Take(table.query, 5)))

\* ------------------------------------------------------------------- CSV
TextFields == {"related_queries", "rising_queries", "error"}
EmptyCell  == [c |-> "empty"]
Txt(s)     == [c |-> "text", s |-> s]

\* DataFrame.to_csv: None, NaN and '' are all written as an empty field
WriteText(v) == IF v.t = "str" /\ Len(v.s) > 0 THEN Txt(v.s) ELSE EmptyCell
\* read_csv: an empty field is read as NaN
ReadText(cell) == IF cell.c = "empty" THEN NaN ELSE Str(cell.s)

ToCsvRow(r)   == [f \in DOMAIN r |-> IF f \in TextFields THEN WriteText(r[f]) ELSE r[f]]
FromCsvRow(w) == [f \in DOMAIN w |-> IF f \in TextFields THEN ReadText(w[f]) ELSE w[f]]
to_csv(rs)    == [k \in 1..Len(rs) |-> ToCsvRow(rs[k])]
read_csv(ws)  == [k \in 1..Len(ws) |-> FromCsvRow(ws[k])]

NoFile       == [exists |-> FALSE, rows |-> <<>>]
FileOf(rows) == [exists |-> TRUE, rows |-> rows]

\* ----------------------------------------------------------- checkpoint
\* (variant: rows with an error are not counted as processed)
load_checkpoint_SkipErrors(file) ==
  IF file.exists
  THEN LET df == read_csv(file.rows)
           ok == {k \in 1..Len(df) : df[k].error = NaN}
       IN  [results   |-> df,
            processed |-> IF script = "full_scan"
                          THEN {Lower(df[k].keyword) : k \in ok}
                          ELSE {df[k].keyword : k \in ok}]
  ELSE [results |-> <<>>, processed |-> {}]

\* returns (results, processed); full_scan lower-cases the keywords
load_checkpoint(file) ==
  IF file.exists
  THEN LET df == read_csv(file.rows)
       IN  [results   |-> df,
            processed |-> IF script = "full_scan"
                          THEN {Lower(df[k].keyword) : k \in 1..Len(df)}
                          ELSE {df[k].keyword : k \in 1..Len(df)}]
  ELSE [results |-> <<>>, processed |-> {}]

\* (variant: only the rows that are not yet in the file are written)
save_checkpoint_NewRows(rs, file) ==
  IF rs # <<>> THEN FileOf(to_csv(SubSeq(rs, Len(file.rows) + 1, Len(rs)))) ELSE file

\* (variant: the file is opened in append mode)
save_checkpoint_Append(rs, file) ==
  IF rs # <<>> THEN FileOf(file.rows \o to_csv(rs)) ELSE file

\* the file after save_checkpoint(rs) when it was `file` before
save_checkpoint(rs, file) ==
  IF rs # <<>> THEN FileOf(to_csv(rs)) ELSE file

\* ------------------------------------------------------ get_keyword_data
NoDataText == <<"N", "o", " ", "d", "a", "t", "a">>
MaxRetriesText ==
  IF script = "full_scan"
  THEN <<"M", "a", "x", " ", "r", "e", "t", "r", "i", "e", "s">>
  ELSE <<"M", "a", "x", " ", "r", "e", "t", "r", "i", "e", "s", " ",
         "e", "x", "c", "e", "e", "d", "e", "d">>

\* (variant: the metrics start from a sentinel instead of 0)
NewResult_Sentinel(keyword, category) ==
  [keyword |-> keyword, category |-> category, current_interest |-> -1,
   growth_5yr |-> 0, growth_1yr |-> 0, growth_6mo |-> 0, growth_3mo |-> 0,
   growth_1mo |-> 0, related_queries |-> Str(<<>>), rising_queries |-> Str(<<>>),
   recommendation_score |-> -1, error |-> None]

\* the result dict at entry
NewResult(keyword, category) ==
  [keyword |-> keyword, category |-> category, current_interest |-> 0,
   growth_5yr |-> 0, growth_1yr |-> 0, growth_6mo |-> 0, growth_3mo |-> 0,
   growth_1mo |-> 0, related_queries |-> Str(<<>>), rising_queries |-> Str(<<>>),
   recommendation_score |-> 0, error |-> None]

\* what the remote API can answer to the primary call
PrimaryResponses ==
  {[kind |-> "series", msg |-> <<>>], [kind |-> "empty", msg |-> <<>>]}
    \cup {[kind |-> "error", msg |-> m] : m \in Messages}

\* (variant: 'rate' is looked for in the message as it is)
IsRateLimited_CaseSensitive(msg) ==
  Contains(msg, <<"4", "2", "9">>) \/ Contains(msg, <<"r", "a", "t", "e">>)

\* '429' in str(e) or 'rate' in str(e).lower()
IsRateLimited(msg) ==
  Contains(msg, <<"4", "2", "9">>) \/ Contains(LowerMsg(msg), <<"r", "a", "t", "e">>)

\* (variant: an empty series is retried like a rate limit)
PrimaryOutcome_EmptyRetried(resp) ==
  IF resp.kind = "series" THEN "ok"
  ELSE IF resp.kind = "empty" THEN "rate"
  ELSE IF IsRateLimited(resp.msg) THEN "rate"
  ELSE "error"

\* how one attempt ends: "ok" (series), "nodata", "rate" (back off) or "error"
PrimaryOutcome(resp) ==
  IF resp.kind = "series" THEN "ok"
  ELSE IF resp.kind = "empty" THEN "nodata"
  ELSE IF IsRateLimited(resp.msg) THEN "rate"
  ELSE "error"

\* (variant: full_scan stores the whole message too)
ErrorText_NoTruncate(msg) == msg

\* the text stored for a terminal error: str(e)[:50] in full_scan, str(e) in
\* niche_scanner
ErrorText(msg) == IF script = "full_scan" THEN Take(msg, ERROR_TRUNCATE) ELSE msg

\* lines 148-155: the growth fields from the series
WithGrowth(r, df) ==
  LET periods == get_time_periods(df)
  IN  [r EXCEPT !.current_interest = periods.current,
                !.growth_5yr = calculate_growth(periods.current, periods.ago_5yr),
                !.growth_1yr = calculate_growth(periods.current, periods.ago_1yr),
                !.growth_6mo = calculate_growth(periods.current, periods.ago_6mo),
                !.growth_3mo = calculate_growth(periods.current, periods.ago_3mo),
                !.growth_1mo = calculate_growth(periods.current, periods.ago_1mo)]

\* lines 160-169: the related and rising queries
WithRelated(r, related) ==
  [r EXCEPT !.related_queries =
               IF related.in /\ ~related.top.isNone THEN JoinHead5(related.top) ELSE @,
            !.rising_queries =
               IF related.in /\ ~related.rising.isNone THEN JoinHead5(related.rising) ELSE @]

\* lines 173-179: the score from a dict of the five growths (whole percents in
\* the results of the model, thousandths of a percent in the dict)
WithScore(r) ==
  [r EXCEPT !.recommendation_score =
     calculate_score(<< [key |-> "growth_1mo", val |-> r.growth_1mo * 1000],
                        [key |-> "growth_3mo", val |-> r.growth_3mo * 1000],
                        [key |-> "growth_6mo", val |-> r.growth_6mo * 1000],
                        [key |-> "growth_1yr", val |-> r.growth_1yr * 1000],
                        [key |-> "growth_5yr", val |-> r.growth_5yr * 1000] >>)]

\* (variant: one attempt too many)
Exhausted_OffByOne(a) == a + 1 > MAX_RETRIES

\* range(MAX_RETRIES) is used up after the attempt numbered a
Exhausted(a) == a + 1 >= MAX_RETRIES

\* ------------------------------------------------------------ the driver
InLoop == pc \in {"loop", "primary", "sleep2", "related", "backoff", "append",
                  "ckpt", "pace"}

\* the task the loop is at
Task == IF script = "full_scan" THEN remaining[i + 1] ELSE queue[i + 1]
Todo == IF script = "full_scan" THEN remaining ELSE queue

\* (variant: the index is tested, and the first task is left out)
CheckpointDue_Late ==
  IF script = "full_scan" THEN i > 0 /\ i % CHECKPOINT_INTERVAL = 0
  ELSE processed_count % NS_CHECKPOINT_EVERY = 0

\* (variant: the loop index is tested instead of the count)
CheckpointDue_OffByOne ==
  IF script = "full_scan" THEN i % CHECKPOINT_INTERVAL = 0
  ELSE processed_count % NS_CHECKPOINT_EVERY = 0

\* (i + 1) % CHECKPOINT_INTERVAL == 0  /  processed_count % 10 == 0
CheckpointDue ==
  IF script = "full_scan" THEN (i + 1) % CHECKPOINT_INTERVAL = 0
  ELSE processed_count % NS_CHECKPOINT_EVERY = 0

\* the steps after the loop, in the order of the code
\* (variant: the checkpoint is removed before the output is written)
FinalSteps_RemoveFirst == <<"finalsave", "cleanup", "output">>

\* save_checkpoint, the write of OUTPUT_FILE, os.remove(CHECKPOINT_FILE)
FinalSteps == <<"finalsave", "output", "cleanup">>

\* the step that follows the step p, "end" after the last one
StepAfter(p) ==
  LET k == CHOOSE j \in 1..Len(FinalSteps) : FinalSteps[j] = p
  IN  IF k < Len(FinalSteps) THEN FinalSteps[k + 1] ELSE "end"

\* related_queries(): it answers or it raises an exception with a message
NoRelated == [kind |-> "none", msg |-> <<>>]
RelatedResponses ==
  {[kind |-> "ok", msg |-> <<>>]}
    \cup {[kind |-> "error", msg |-> m] : m \in {MsgTimeout, Msg429}}

\* (variant: the exception leaves the inner try)
RelatedOutcome_Escalates(resp) ==
  IF resp.kind = "ok" THEN "ok"
  ELSE IF IsRateLimited(resp.msg) THEN "rate"
  ELSE "error"

\* the inner try of lines 159-171: whatever is raised is swallowed
RelatedOutcome(resp) == IF resp.kind = "ok" THEN "ok" ELSE "swallowed"

\* no helper is called on its own
NoCall == [fn |-> "none"]
NoRet  == [set |-> FALSE]

Env     == <<script, queue, trend, limits, call, ret>>
Files   == <<ckptFile, outFile>>

\* the state before the first run: no file on disk, no process
Idle ==
  /\ script \in {"full_scan", "niche_scanner"}
  /\ ckptFile = NoFile
  /\ outFile = NoFile
  /\ pc = "stopped"
  /\ status = "idle"
  /\ results = <<>>
  /\ processed = {}
  /\ remaining = <<>>
  /\ i = 0
  /\ processed_count = 0
  /\ result = NewResult("", "")
  /\ attempt = 0
  /\ called = <<>>
  /\ attemptLog = <<>>
  /\ sinceCall = <<>>
  /\ interrupts = 0
  /\ injected = [empty |-> 0, error |-> 0, related |-> 0, rate |-> 0]
  /\ fresh = TRUE
  /\ done = 0
  /\ loaded = 0
  /\ lastPc = "stopped"
  /\ relatedLog = NoRelated
  /\ written = FALSE

\* a long scan: checkpoints are written on the way, few responses fail
Init ==
  /\ Idle
  /\ queue = BuildQueue(script, NumKeywords)
  /\ trend = "mixed"
  /\ limits = [empty |-> MaxFaults, error |-> 0, related |-> 0, rate |-> MaxFaults]
  /\ call = NoCall
  /\ ret = NoRet

\* a short scan: every kind of response, for every keyword
InitFetch ==
  /\ Idle
  /\ queue = BuildQueue(script, ShortQueue)
  /\ trend \in {"flat", "rise", "mixed"}
  /\ limits = [empty |-> MaxFetchFaults, error |-> MaxFetchFaults,
               related |-> MaxFetchFaults, rate |-> MaxRateLimits]
  /\ call = NoCall
  /\ ret = NoRet

\* (variant: the keyword is compared without lower())
Remaining_CaseSensitive(all, done_keys) ==
  SelectSeq(all, LAMBDA k : k.keyword \notin done_keys)

\* remaining = [k for k in all_keywords if k['keyword'].lower() not in processed]
Remaining(all, done_keys) ==
  SelectSeq(all, LAMBDA k : Lower(k.keyword) \notin done_keys)

\* main() / scan_all_keywords() up to the loop: load the checkpoint
Start ==
  /\ pc = "stopped"
  /\ status # "completed"
  /\ LET cp  == load_checkpoint(ckptFile)
         rem == Remaining(queue, cp.processed)
     IN  /\ results' = cp.results
         /\ loaded' = Len(cp.results)
         /\ processed' = cp.processed
         /\ remaining' = IF script = "full_scan" THEN rem ELSE <<>>
         /\ processed_count' = IF script = "full_scan" THEN 0
                               ELSE Cardinality(cp.processed)
         /\ pc' = IF script = "full_scan" /\ rem = <<>>
                  THEN StepAfter(FinalSteps[1]) ELSE "loop"
  /\ status' = "running"
  /\ i' = 0
  /\ result' = NewResult("", "")
  /\ attempt' = 0
  /\ called' = <<>>
  /\ attemptLog' = <<>>
  /\ sinceCall' = <<>>
  /\ fresh' = ~ckptFile.exists
  /\ done' = 0
  /\ lastPc' = "stopped"
  /\ relatedLog' = NoRelated
  /\ written' = FALSE
  /\ UNCHANGED <<Env, Files, interrupts, injected>>

\* the process is gone, and its memory with it; done, fresh and loaded stay
\* as history of the run that ended
Halt(how) ==
  /\ pc' = "stopped"
  /\ lastPc' = pc
  /\ status' = how
  /\ results' = <<>>
  /\ processed' = {}
  /\ remaining' = <<>>
  /\ i' = 0
  /\ processed_count' = 0
  /\ result' = NewResult("", "")
  /\ attempt' = 0
  /\ called' = <<>>
  /\ attemptLog' = <<>>
  /\ sinceCall' = <<>>
  /\ relatedLog' = NoRelated

RunInfo == <<status, fresh, loaded, lastPc, written>>
Loaded  == <<processed, remaining>>

\* the for statement: next task, a skip (niche_scanner, line 272) or loop end
LoopNext ==
  /\ pc = "loop"
  /\ IF i >= Len(Todo)
     THEN /\ pc' = FinalSteps[1]
          /\ UNCHANGED <<i, processed_count, result, attempt, called, attemptLog>>
     ELSE IF script = "niche_scanner" /\ Task.keyword \in processed
     THEN /\ i' = i + 1
          /\ pc' = "loop"
          /\ UNCHANGED <<processed_count, result, attempt, called, attemptLog>>
     ELSE /\ processed_count' = IF script = "full_scan" THEN processed_count
                                ELSE processed_count + 1
          /\ result' = NewResult(Task.keyword, Task.category)
          /\ attempt' = 0
          /\ called' = Append(called, Task.keyword)
          /\ attemptLog' = <<>>
          /\ pc' = "primary"
          /\ UNCHANGED i
  /\ UNCHANGED <<Env, Files, RunInfo, Loaded, results, sinceCall, interrupts,
                 injected, done, relatedLog>>

\* build_payload + interest_over_time of one attempt, and what follows at once
Primary ==
  /\ pc = "primary"
  /\ \E resp \in PrimaryResponses :
       LET o    == PrimaryOutcome(resp)
           kind == IF resp.kind = "error" /\ IsRateLimited(resp.msg) THEN "rate"
                   ELSE resp.kind
       IN  /\ IF kind = "series" THEN UNCHANGED injected
              ELSE /\ injected[kind] < limits[kind]
                   /\ injected' = [injected EXCEPT ![kind] = @ + 1]
           /\ attemptLog' = Append(attemptLog, resp)
           /\ CASE o = "ok" ->
                     /\ result' = WithGrowth(result, SeriesFor(result.keyword))
                     /\ pc' = "sleep2"
                [] o = "nodata" ->
                     /\ result' = [result EXCEPT !.error = Str(NoDataText)]
                     /\ pc' = "append"
                [] o = "rate" ->
                     /\ pc' = "backoff"
                     /\ UNCHANGED result
                [] OTHER ->
                     /\ result' = [result EXCEPT !.error = Str(ErrorText(resp.msg))]
                     /\ pc' = "append"
  /\ sinceCall' = <<>>
  /\ UNCHANGED <<Env, Files, RunInfo, Loaded, results, i, processed_count,
                 attempt, called, interrupts, done, relatedLog>>

\* (variant: related_queries is called right after the series)
RelatedSleeps_None == <<>>

\* the sleeps between the series call and related_queries: time.sleep(2)
RelatedSleeps == <<RELATED_DELAY>>

Sleep2 ==
  /\ pc = "sleep2"
  /\ sinceCall' = sinceCall \o RelatedSleeps
  /\ pc' = "related"
  /\ UNCHANGED <<Env, Files, RunInfo, Loaded, results, i, processed_count,
                 result, attempt, called, attemptLog, interrupts, injected, done,
                 relatedLog>>

\* related_queries() in its own try, then the score and the return; an
\* exception that left the inner try would reach the handler of the attempt
Related ==
  /\ pc = "related"
  /\ \E resp \in RelatedResponses :
       LET o == RelatedOutcome(resp)
       IN  /\ IF resp.kind = "ok" THEN UNCHANGED injected
              ELSE /\ injected.related < limits.related
                   /\ injected' = [injected EXCEPT !.related = @ + 1]
           /\ relatedLog' = resp
           /\ CASE o = "ok" ->
                     /\ result' = WithScore(WithRelated(result, RelatedFor(result.keyword)))
                     /\ pc' = "append"
                [] o = "swallowed" ->
                     /\ result' = WithScore(result)
                     /\ pc' = "append"
                [] o = "rate" ->
                     /\ pc' = "backoff"
                     /\ UNCHANGED result
                [] OTHER ->
                     /\ result' = [result EXCEPT !.error = Str(ErrorText(resp.msg))]
                     /\ pc' = "append"
  /\ sinceCall' = <<>>
  /\ UNCHANGED <<Env, Files, RunInfo, Loaded, results, i, processed_count,
                 attempt, called, attemptLog, interrupts, done>>

\* time.sleep(RETRY_DELAY), then the next attempt or 'Max retries'
Backoff ==
  /\ pc = "backoff"
  /\ sinceCall' = Append(sinceCall, RETRY_DELAY)
  /\ IF Exhausted(attempt)
     THEN /\ result' = [result EXCEPT !.error = Str(MaxRetriesText)]
          /\ pc' = "append"
          /\ UNCHANGED attempt
     ELSE /\ attempt' = attempt + 1
          /\ pc' = "primary"
          /\ UNCHANGED result
  /\ UNCHANGED <<Env, Files, RunInfo, Loaded, results, i, processed_count,
                 called, attemptLog, interrupts, injected, done, relatedLog>>

\* (variant: a failed result is not kept)
Appended_DropErrors(rs, r) == IF Truthy(r.error) THEN rs ELSE Append(rs, r)

\* results.append(result)
Appended(rs, r) == Append(rs, r)

\* get_keyword_data has returned: the driver keeps the result
AppendResult ==
  /\ pc = "append"
  /\ results' = Appended(results, result)
  /\ relatedLog' = NoRelated
  /\ pc' = "ckpt"
  /\ UNCHANGED <<Env, Files, RunInfo, Loaded, i, processed_count, result,
                 attempt, called, attemptLog, sinceCall, interrupts, injected,
                 done>>

\* the periodic save_checkpoint
Checkpoint ==
  /\ pc = "ckpt"
  /\ ckptFile' = IF CheckpointDue THEN save_checkpoint(results, ckptFile) ELSE ckptFile
  /\ done' = done + 1
  /\ pc' = "pace"
  /\ UNCHANGED <<Env, outFile, RunInfo, Loaded, results, i, processed_count,
                 result, attempt, called, attemptLog, sinceCall, interrupts,
                 injected, relatedLog>>

\* (variant: no pause after a keyword that failed)
PaceSleeps_OnlyOnSuccess(r) == IF Truthy(r.error) THEN <<>> ELSE <<REQUEST_DELAY>>

\* the sleeps of the driver after the result r: time.sleep(REQUEST_DELAY)
PaceSleeps(r) == <<REQUEST_DELAY>>

Pace ==
  /\ pc = "pace"
  /\ sinceCall' = sinceCall \o PaceSleeps(result)
  /\ i' = i + 1
  /\ pc' = "loop"
  /\ UNCHANGED <<Env, Files, RunInfo, Loaded, results, processed_count, result,
                 attempt, called, attemptLog, interrupts, injected, done,
                 relatedLog>>

\* the step p of the end of the run is over: on to the next one, or the process
\* ends normally
Finish(p) ==
  IF StepAfter(p) = "end" THEN Halt("completed")
  ELSE /\ pc' = StepAfter(p)
       /\ UNCHANGED <<status, lastPc, Loaded, results, i, processed_count,
                      result, attempt, called, attemptLog, sinceCall, relatedLog>>

\* the save_checkpoint after the loop
FinalSave ==
  /\ pc = "finalsave"
  /\ ckptFile' = save_checkpoint(results, ckptFile)
  /\ Finish("finalsave")
  /\ UNCHANGED <<Env, outFile, fresh, loaded, written, interrupts, injected, done>>

\* sort_values('recommendation_score', ascending=False), ties in input order
RECURSIVE SortDesc(_)
InsertDesc(r, sorted) ==
  LET before == SelectSeq(sorted, LAMBDA x : x.recommendation_score >= r.recommendation_score)
      after  == SelectSeq(sorted, LAMBDA x : x.recommendation_score < r.recommendation_score)
  IN  before \o <<r>> \o after
SortDesc(rs) ==
  IF rs = <<>> THEN <<>>
  ELSE InsertDesc(rs[Len(rs)], SortDesc(SubSeq(rs, 1, Len(rs) - 1)))

OutColumns == {"keyword", "category", "current_interest", "growth_5yr",
               "growth_1yr", "growth_6mo", "growth_3mo", "growth_1mo",
               "related_queries", "rising_queries", "recommendation_score"}

\* niche_scanner.save_final_results: the rows that go to the output file
Passing(rs) ==
  LET passing == SelectSeq(rs, passes_threshold)
  IN  IF passing # <<>> THEN passing
      ELSE SelectSeq(rs, LAMBDA r : ~Truthy(r.error))

\* (variant: the frame is written as it is)
OutputRows_Unsorted(rs) ==
  IF script = "full_scan" THEN rs
  ELSE LET df == Passing(rs)
       IN  [k \in 1..Len(df) |-> [f \in OutColumns |-> df[k][f]]]

\* the rows written to OUTPUT_FILE
OutputRows(rs) ==
  IF script = "full_scan" THEN SortDesc(rs)
  ELSE LET df == SortDesc(Passing(rs))
       IN  [k \in 1..Len(df) |-> [f \in OutColumns |-> df[k][f]]]

\* niche_scanner: DataFrame([]) has no column, sort_values raises KeyError
OutputFails(rs) == script = "niche_scanner" /\ Passing(rs) = <<>>

\* the final output
WriteOutput ==
  /\ pc = "output"
  /\ IF OutputFails(results)
     THEN /\ Halt("crashed")
          /\ UNCHANGED <<outFile, written>>
     ELSE /\ outFile' = FileOf(to_csv(OutputRows(results)))
          /\ written' = TRUE
          /\ Finish("output")
  /\ UNCHANGED <<Env, ckptFile, fresh, loaded, interrupts, injected, done>>

\* os.remove(CHECKPOINT_FILE)
Cleanup ==
  /\ pc = "cleanup"
  /\ ckptFile' = NoFile
  /\ Finish("cleanup")
  /\ UNCHANGED <<Env, outFile, fresh, loaded, written, interrupts, injected, done>>

\* a KeyboardInterrupt: it ends the process, except inside the bare except of
\* full_scan.get_keyword_data (line 170), which swallows it
Interrupt ==
  /\ pc # "stopped"
  /\ interrupts < MaxInterrupts
  /\ interrupts' = interrupts + 1
  /\ IF script = "full_scan" /\ pc = "related"
     THEN /\ result' = WithScore(result)
          /\ relatedLog' = [kind |-> "interrupt", msg |-> <<>>]
          /\ sinceCall' = <<>>
          /\ pc' = "append"
          /\ UNCHANGED <<status, lastPc, Loaded, results, i, processed_count,
                         attempt, called, attemptLog>>
     ELSE Halt("interrupted")
  /\ UNCHANGED <<Env, Files, fresh, loaded, written, injected, done>>

Next ==
  \/ Start
  \/ LoopNext
  \/ Primary
  \/ Sleep2
  \/ Related
  \/ Backoff
  \/ AppendResult
  \/ Checkpoint
  \/ Pace
  \/ FinalSave
  \/ WriteOutput
  \/ Cleanup
  \/ Interrupt

Spec == Init /\ [][Next]_vars

SpecFetch == InitFetch /\ [][Next]_vars

\* ------------------------------------------------- helpers called on their own
\* samples of a series, and the past values that divide the growth exactly
Interests == 0..MaxInterest
Pasts     == {p \in Interests : p = 0 \/ (p <= 100 /\ 100 % p = 0)}

\* growth values around the threshold
GrowthSamples == {0, 250, MIN_GROWTH_THRESHOLD - 1, MIN_GROWTH_THRESHOLD, 500}

\* a result row with the given error and growth profile
RowOf(e, g5, g1, g6, g3, g1m) ==
  [NewResult("zinc", "supplements") EXCEPT
     !.error = e, !.growth_5yr = g5, !.growth_1yr = g1, !.growth_6mo = g6,
     !.growth_3mo = g3, !.growth_1mo = g1m]

\* the rows the scripts hand to passes_threshold: a successful result (error
\* None, or NaN once it went through the checkpoint file) with any profile, a
\* failed one (a message, possibly empty) with the neutral profile
Rows ==
  {RowOf(e, g5, g1, g6, g3, g1m) :
     e \in {None, NaN}, g5 \in GrowthSamples, g1 \in GrowthSamples,
     g6 \in GrowthSamples, g3 \in GrowthSamples, g1m \in GrowthSamples}
    \cup {RowOf(e, 0, 0, 0, 0, 0) : e \in {Str(NoDataText), Str(<<>>)}}

\* keyword lists with repeated keywords in several spellings
SampleTasks ==
  {[keyword |-> k, category |-> c] :
     k \in {"PCOS", "pcos", "zinc"}, c \in {"womens_health", "discovered"}}
TaskLists == UNION {[1..n -> SampleTasks] : n \in 0..MaxTasks}

\* result collections and checkpoint files of a few rows
SampleRows ==
  {[NewResult(k, "supplements") EXCEPT !.error = e] :
     k \in {"zinc", "PCOS", "vitex"}, e \in {None, Str(NoDataText)}}
RowLists    == UNION {[1..n -> SampleRows] : n \in 0..MaxTasks}
SampleFiles == {NoFile} \cup {FileOf(to_csv(rs)) : rs \in RowLists \ {<<>>}}

\* series of every length whose samples tell their position
SampleSeries ==
  UNION {{[k \in 1..L |-> k], [k \in 1..L |-> L - k], [k \in 1..L |-> (7 * k) % 11]} :
           L \in 1..MaxSeriesLen}

\* series for the metrics of a result: three levels over 60 weeks, a single
\* sample, a fall to 0
LevelSeries ==
  {[k \in 1..60 |-> IF k = 60 THEN c ELSE IF k <= 20 THEN a ELSE b] :
     a \in {0, 1, 20, 100}, b \in {0, 1, 50, 100}, c \in {0, 1, 100, MaxInterest}}
    \cup {<<v>> : v \in {0, 1, 50}} \cup {<<10, 0>>}

\* growth dicts: any of the five keys, inserted in any order, each with a
\* growth of -57.142 or 333.333 percent
GrowthKeys == {"growth_1mo", "growth_3mo", "growth_6mo", "growth_1yr", "growth_5yr"}
GrowthDicts ==
  {g \in UNION {[1..n -> [key : GrowthKeys, val : {-57142, 333333}]] :
                  n \in 0..Cardinality(GrowthKeys)} :
     \A a, b \in 1..Len(g) : a # b => g[a].key # g[b].key}

HelperCalls ==
  {[fn |-> "calculate_growth", current |-> c, past |-> p] :
     c \in Interests, p \in Pasts}
    \cup {[fn |-> "passes_threshold", r |-> r] : r \in Rows}
    \cup {[fn |-> "all_keywords", health |-> h, discovered |-> d] :
            h \in TaskLists, d \in TaskLists}
    \cup {[fn |-> "get_time_periods", df |-> df] : df \in SampleSeries}
    \cup {[fn |-> "calculate_score", g |-> g] : g \in GrowthDicts}
    \cup {[fn |-> "metrics", df |-> df] : df \in LevelSeries}
    \cup {[fn |-> "save_checkpoint", rs |-> rs, file |-> f] :
            rs \in RowLists, f \in SampleFiles}

Returned(v) == [set |-> TRUE, v |-> v]

InitHelpers ==
  /\ Idle
  /\ queue = <<>>
  /\ trend = "flat"
  /\ limits = [empty |-> 0, error |-> 0, related |-> 0, rate |-> 0]
  /\ call \in HelperCalls
  /\ ret = NoRet

Scan == <<script, queue, trend, ckptFile, outFile, pc, status, results,
          processed, remaining, i, processed_count, result, attempt, called,
          attemptLog, sinceCall, interrupts, injected, limits, fresh,
          done, loaded, lastPc, relatedLog, written>>

Call_calculate_growth ==
  /\ call.fn = "calculate_growth"
  /\ ~ret.set
  /\ ret' = Returned(calculate_growth(call.current, call.past))
  /\ UNCHANGED <<Scan, call>>

Call_passes_threshold ==
  /\ call.fn = "passes_threshold"
  /\ ~ret.set
  /\ ret' = Returned(passes_threshold(call.r))
  /\ UNCHANGED <<Scan, call>>

Call_all_keywords ==
  /\ call.fn = "all_keywords"
  /\ ~ret.set
  /\ ret' = Returned(all_keywords(call.health, call.discovered))
  /\ UNCHANGED <<Scan, call>>

Call_save_checkpoint ==
  /\ call.fn = "save_checkpoint"
  /\ ~ret.set
  /\ ret' = Returned(save_checkpoint(call.rs, call.file))
  /\ UNCHANGED <<Scan, call>>

Call_get_time_periods ==
  /\ call.fn = "get_time_periods"
  /\ ~ret.set
  /\ ret' = Returned(get_time_periods(call.df))
  /\ UNCHANGED <<Scan, call>>

\* the success path of get_keyword_data without the remote calls: the growth
\* fields from the series, then the score
Call_metrics ==
  /\ call.fn = "metrics"
  /\ ~ret.set
  /\ ret' = Returned(WithScore(WithGrowth(NewResult("zinc", "supplements"), call.df)))
  /\ UNCHANGED <<Scan, call>>

Call_calculate_score ==
  /\ call.fn = "calculate_score"
  /\ ~ret.set
  /\ ret' = Returned(calculate_score(call.g))
  /\ UNCHANGED <<Scan, call>>

NextHelpers ==
  \/ Call_calculate_growth
  \/ Call_passes_threshold
  \/ Call_all_keywords
  \/ Call_save_checkpoint
  \/ Call_get_time_periods
  \/ Call_metrics
  \/ Call_calculate_score

SpecHelpers == InitHelpers /\ [][NextHelpers]_vars

\* =================================================================== claims
Keys(rs)    == {Lower(rs[k].keyword) : k \in 1..Len(rs)}
QueueKeys   == Keys(queue)
Distinct(q) == \A a, b \in 1..Len(q) : a # b => q[a] # q[b]
Last(q)     == q[Len(q)]
InFetch     == pc \in {"primary", "sleep2", "related", "backoff", "append"}
LoopPcs     == {"loop", "primary", "sleep2", "related", "backoff", "append",
                "ckpt", "pace"}
\* the response was a rate-limited failure
RateLimited(resp) == resp.kind = "error" /\ IsRateLimited(resp.msg)
\* the response was a failure that is not rate-limited
OtherError(resp)  == resp.kind = "error" /\ ~IsRateLimited(resp.msg)

\* C1: when the loop of a run has ended (the final output is being or has been
\* written), whatever interruptions and resumptions came before, the result
\* collection holds exactly one ScanResult per lower-cased keyword of the
\* queue: none missing, none twice.
C1_OnePerKeyword ==
  pc \in {"output", "cleanup"} =>
    /\ Len(results) = Cardinality(QueueKeys)
    /\ Keys(results) = QueueKeys

\* a completing run that loaded rows from a checkpoint and produced new ones,
\* after two interruptions
C1_Witness ==
  /\ pc = "cleanup"
  /\ interrupts >= 2
  /\ loaded > 0
  /\ Len(called) > 0

\* C2: a run of full_scan.main that loaded K rows of an N-keyword queue calls
\* get_keyword_data exactly N - K times, each time for a keyword that is not
\* in the checkpoint and never twice for the same one, and ends its loop with
\* N results without a duplicate keyword; without a checkpoint file K = 0 and
\* the processed set is empty.
C2_ResumeExactlyRemaining ==
  (script = "full_scan" /\ pc \in {"output", "cleanup"}) =>
    LET N == Len(queue)
        K == loaded
    IN  /\ Len(called) = N - K
        /\ \A c \in 1..Len(called) : \A j \in 1..K :
             Lower(called[c]) # Lower(results[j].keyword)
        /\ Distinct(called)
        /\ Len(results) = N
        /\ Distinct([k \in 1..Len(results) |-> Lower(results[k].keyword)])
        /\ (fresh => K = 0 /\ processed = {})

\* a resumed run of full_scan completing from a checkpoint of one interval
C2_Witness ==
  /\ script = "full_scan"
  /\ pc = "cleanup"
  /\ loaded = CHECKPOINT_INTERVAL
  /\ Len(called) = Len(queue) - CHECKPOINT_INTERVAL

\* C3: no keyword of a row loaded from the checkpoint, with or without an
\* error in that row, is ever passed to get_keyword_data in the resumed run.
C3_CheckpointedNeverRefetched ==
  status = "running" =>
    \A j \in 1..loaded : \A c \in 1..Len(called) :
      /\ results[j].keyword # called[c]
      /\ Lower(results[j].keyword) # Lower(called[c])

\* a resumed run fetching, with a 'No data' row among the loaded ones
C3_Witness ==
  /\ status = "running"
  /\ Len(called) > 0
  /\ \E j \in 1..loaded : results[j].error = Str(NoDataText)

\* what the checkpoint file holds when exactly the first n results were saved
CheckpointHolds(n) ==
  IF n = 0 THEN ~ckptFile.exists
  ELSE /\ ckptFile = FileOf(to_csv(SubSeq(results, 1, n)))
       /\ \A k \in 1..n : results[k].keyword = queue[k].keyword
SavedOf(m) == CHECKPOINT_INTERVAL * (m \div CHECKPOINT_INTERVAL)

C5_InterruptStops ==
  [][(interrupts' # interrupts /\ pc # "cleanup")
       => (pc' = "stopped" /\ status' = "interrupted"
           /\ UNCHANGED <<ckptFile, outFile>>)]_vars

\* the same collection: the same rows, whatever their order
SameRows(a, b) ==
  /\ Len(a) = Len(b)
  /\ {a[k] : k \in 1..Len(a)} = {b[k] : k \in 1..Len(b)}

\* C6: when the checkpoint file is the one save_checkpoint(results) writes,
\* load_checkpoint gives back results field by field, and a second
\* save_checkpoint(results) leaves the same file.
C6_SaveLoadRoundTrip ==
  (results # <<>> /\ ckptFile = save_checkpoint(results, NoFile)) =>
    /\ SameRows(load_checkpoint(ckptFile).results, results)
    /\ save_checkpoint(results, ckptFile) = ckptFile

\* C7: in the loop every call of get_keyword_data that has returned has put
\* exactly one result for its keyword into the collection, the calls follow
\* the queue (less the checkpointed keywords) in order, and the loop is left
\* only by an interruption or when every such keyword has been fetched.
C7_State ==
  (status = "running" /\ InLoop) =>
    LET pending == IF InFetch THEN 1 ELSE 0
        todo    == SelectSeq(queue, LAMBDA k :
                      \A j \in 1..loaded : results[j].keyword # k.keyword)
    IN  /\ Len(results) = loaded + Len(called) - pending
        /\ \A c \in 1..(Len(called) - pending) : results[loaded + c].keyword = called[c]
        /\ Len(called) <= Len(todo)
        /\ \A c \in 1..Len(called) : called[c] = todo[c].keyword
C7_FailureNeverAborts ==
  [][/\ C7_State'
     /\ (InLoop /\ ~InLoop') =>
          \/ status' = "interrupted"
          \/ /\ pc' = "finalsave"
             /\ Len(results') = Len(queue)
    ]_vars

\* the first keyword ended in 'Max retries' and the second is being fetched
C7_Witness ==
  /\ pc = "primary"
  /\ loaded = 0
  /\ Len(called) = 2
  /\ results[1].error = Str(MaxRetriesText)

\* C8: a keyword gets at most MAX_RETRIES primary calls; a retry happens only
\* after a rate-limited attempt and a sleep of RETRY_DELAY, for the same
\* keyword; get_keyword_data returns after a rate-limited attempt only when
\* the MAX_RETRIES attempts are used up, and then with the max-retries marker.
C8_BoundedRetries ==
  /\ Len(attemptLog) <= MAX_RETRIES
  /\ attempt < MAX_RETRIES
  /\ (pc = "primary" /\ attempt > 0) =>
       /\ Len(attemptLog) = attempt
       /\ RateLimited(Last(attemptLog))
       /\ sinceCall = <<RETRY_DELAY>>
       /\ result.keyword = Last(called)
  /\ (pc = "append" /\ attemptLog # <<>> /\ RateLimited(Last(attemptLog))) =>
       /\ Len(attemptLog) = MAX_RETRIES
       /\ \A j \in 1..Len(attemptLog) : RateLimited(attemptLog[j])
       /\ result.error = Str(MaxRetriesText)
       /\ sinceCall = <<RETRY_DELAY>>
  /\ (pc = "append" /\ result.error = Str(MaxRetriesText)) =>
       /\ Len(attemptLog) = MAX_RETRIES
       /\ RateLimited(Last(attemptLog))

\* get_keyword_data returns 'Max retries' after MAX_RETRIES rate-limited calls
C8_Witness ==
  /\ pc = "append"
  /\ Len(attemptLog) = MAX_RETRIES
  /\ result.error = Str(MaxRetriesText)

\* C9: an empty series is the last primary call for its keyword: the function
\* returns with error 'No data' and without any sleep after that call.
C9_NoDataImmediate ==
  \A j \in 1..Len(attemptLog) :
    attemptLog[j].kind = "empty" =>
      /\ j = Len(attemptLog)
      /\ pc \notin {"primary", "backoff", "sleep2", "related"}
      /\ pc = "append" => (result.error = Str(NoDataText) /\ sinceCall = <<>>)

\* an empty series after a rate-limited attempt
C9_Witness ==
  /\ pc = "append"
  /\ Len(attemptLog) = 2
  /\ RateLimited(attemptLog[1])
  /\ attemptLog[2].kind = "empty"
  /\ result.error = Str(NoDataText)

NeutralMetrics(r) ==
  /\ r.current_interest = 0
  /\ r.growth_5yr = 0 /\ r.growth_1yr = 0 /\ r.growth_6mo = 0
  /\ r.growth_3mo = 0 /\ r.growth_1mo = 0

\* the weighted sum of the growth fields of a row, in hundredths
WeightedSum(r) ==
  30 * r.growth_1mo + 25 * r.growth_3mo + 20 * r.growth_6mo +
  15 * r.growth_1yr + 10 * r.growth_5yr

\* C11: when the series fetch succeeded and related_queries raised, whatever
\* the message (a rate-limit text too), get_keyword_data returns at once: the
\* result has error None, the growth values of the series, its score computed
\* from them and empty related fields; no further primary call was made and
\* no sleep followed the failed call.
C11_RelatedFailureSwallowed ==
  relatedLog.kind = "error" =>
    /\ pc = "append"
    /\ result.error = None
    /\ LET df == SeriesFor(result.keyword)
           g  == WithGrowth(NewResult(result.keyword, result.category), df)
       IN  /\ result.current_interest = df[Len(df)]
           /\ result.growth_5yr = g.growth_5yr
           /\ result.growth_1yr = g.growth_1yr
           /\ result.growth_6mo = g.growth_6mo
           /\ result.growth_3mo = g.growth_3mo
           /\ result.growth_1mo = g.growth_1mo
    /\ result.recommendation_score = WeightedSum(result)
    /\ result.related_queries = Str(<<>>)
    /\ result.rising_queries = Str(<<>>)
    /\ Last(attemptLog).kind = "series"
    /\ Len(attemptLog) = attempt + 1
    /\ sinceCall = <<>>

\* related_queries raised 'HTTP 429' for a keyword with growth_1yr = 300
C11_Witness ==
  /\ pc = "append"
  /\ relatedLog = [kind |-> "error", msg |-> Msg429]
  /\ result.error = None
  /\ result.growth_1yr = MIN_GROWTH_THRESHOLD
  /\ result.recommendation_score > 0

\* C12: a result that get_keyword_data returns with error set ('No data',
\* another error, the max-retries marker) has current_interest, the five
\* growth fields and recommendation_score at 0; a result returned after a
\* series was fetched has error None.  The same holds of every result this
\* run has appended.
C12_ErrorMeansNeutral ==
  /\ pc = "append" =>
       /\ result.error # None =>
            (NeutralMetrics(result) /\ result.recommendation_score = 0)
       /\ Last(attemptLog).kind = "series" => result.error = None
  /\ \A k \in (loaded + 1)..Len(results) :
       results[k].error # None =>
         (NeutralMetrics(results[k]) /\ results[k].recommendation_score = 0)

\* 'Max retries' is being returned after a keyword with a non-zero profile
C12_Witness ==
  /\ pc = "append"
  /\ result.error = Str(MaxRetriesText)
  /\ NeutralMetrics(result)
  /\ Len(results) = 1
  /\ results[1].error = None
  /\ results[1].growth_1yr = MIN_GROWTH_THRESHOLD

\* C13: the first primary call of a keyword that is not the first of the run
\* comes right after a sleep of REQUEST_DELAY, and so does the end of the
\* loop, whether the keyword before succeeded or failed.
C13_PacedBetweenKeywords ==
  /\ (pc = "primary" /\ attemptLog = <<>> /\ Len(called) > 1) =>
       (sinceCall # <<>> /\ Last(sinceCall) = REQUEST_DELAY)
  /\ (pc = "loop" /\ Len(called) > 0) =>
       (sinceCall # <<>> /\ Last(sinceCall) = REQUEST_DELAY)

\* the second keyword is about to be fetched after the first got 'No data'
C13_Witness ==
  /\ pc = "primary"
  /\ attemptLog = <<>>
  /\ Len(called) = 2
  /\ Len(results) = 1
  /\ results[1].error = Str(NoDataText)
  /\ sinceCall = <<REQUEST_DELAY>>

\* the keywords of the rows of a CSV file, in order
FileKeywords(file) == [k \in 1..Len(file.rows) |-> file.rows[k].keyword]

\* C14 as stated: the write of the output file is reached from the final
\* save_checkpoint only, the removal of the checkpoint file from the write of
\* the output file only, and the checkpoint file is removed only when this run
\* has written the output file.
C14_SaveThenOutputThenRemove ==
  [][/\ (pc # "output" /\ pc' = "output") =>
          (pc = "finalsave" /\ ckptFile' = save_checkpoint(results, ckptFile))
     /\ (pc # "cleanup" /\ pc' = "cleanup") =>
          (pc = "output" /\ written' /\ outFile'.exists)
     /\ (ckptFile.exists /\ ~ckptFile'.exists) =>
          (pc = "cleanup" /\ written /\ outFile.exists)
    ]_vars

\* C14 amended: the same order, except that a resumed run of full_scan that
\* finds nothing remaining goes from the load of the checkpoint, which holds
\* a row for every keyword of the queue, straight to the write of the output
\* file; the checkpoint file is removed only when this run has written the
\* output file, and the process then ends as completed.
C14_FinalOrder ==
  [][/\ (pc # "output" /\ pc' = "output") =>
          \/ pc = "finalsave" /\ ckptFile' = save_checkpoint(results, ckptFile)
          \/ /\ pc = "stopped" /\ script = "full_scan"
             /\ ckptFile.exists /\ UNCHANGED ckptFile
             /\ Len(ckptFile.rows) = Len(queue)
             /\ \A k \in 1..Len(queue) :
                  \E j \in 1..Len(ckptFile.rows) :
                    Lower(ckptFile.rows[j].keyword) = Lower(queue[k].keyword)
     /\ (pc # "cleanup" /\ pc' = "cleanup") =>
          (pc = "output" /\ written' /\ outFile'.exists)
     /\ (ckptFile.exists /\ ~ckptFile'.exists) =>
          (pc = "cleanup" /\ written /\ outFile.exists /\ status' = "completed")
    ]_vars

\* a resumed run of full_scan that found nothing remaining has completed
C14_Witness ==
  /\ script = "full_scan"
  /\ status = "completed"
  /\ loaded = Len(queue)
  /\ written
  /\ outFile.exists
  /\ ~ckptFile.exists

\* C15: a process that ended without being interrupted ended by normal
\* completion: this run has written the output file and the checkpoint file
\* does not exist.
C15_UninterruptedRunCompletes ==
  (pc = "stopped" /\ status \notin {"idle", "interrupted"}) =>
    /\ status = "completed"
    /\ written
    /\ outFile.exists
    /\ ~ckptFile.exists

\* C16: the output file just written holds exactly the results that pass the
\* threshold filter, each once.
C16_OutputExactlyPassing ==
  pc = "cleanup" =>
    /\ \A k \in 1..Len(results) :
         passes_threshold(results[k]) <=>
           (\E j \in 1..Len(outFile.rows) :
              outFile.rows[j].keyword = results[k].keyword)
    /\ Len(outFile.rows) = Len(SelectSeq(results, passes_threshold))

\* C20: the rows of the output file are in non-increasing order of
\* recommendation_score.
C20_OutputSortedByScore ==
  outFile.exists =>
    \A k \in 1..(Len(outFile.rows) - 1) :
      outFile.rows[k].recommendation_score >= outFile.rows[k + 1].recommendation_score

\* an output file of three rows or more whose first row is not the first
\* keyword of the queue and whose scores differ
C20_Witness ==
  /\ outFile.exists
  /\ Len(outFile.rows) >= 3
  /\ outFile.rows[1].keyword # queue[1].keyword
  /\ outFile.rows[1].recommendation_score >
       outFile.rows[Len(outFile.rows)].recommendation_score

Horizons == {"growth_5yr", "growth_1yr", "growth_6mo", "growth_3mo", "growth_1mo"}

\* C17: passes_threshold(r) is true exactly when r.error is None and one of
\* the five growths is at least MIN_GROWTH_THRESHOLD, whatever the others and
\* the score are: a growth equal to the threshold passes, one horizon at 500
\* with the others at 0 passes, every horizon at 250 fails.
C17_PassesThreshold ==
  (call.fn = "passes_threshold" /\ ret.set) =>
    /\ ret.v <=> (/\ call.r.error = None
                  /\ \E h \in Horizons : call.r[h] >= MIN_GROWTH_THRESHOLD)
    /\ call.r = RowOf(None, 0, 0, 0, 0, 500) => ret.v
    /\ call.r = RowOf(None, 0, MIN_GROWTH_THRESHOLD, 0, 0, 0) => ret.v
    /\ call.r = RowOf(None, 250, 250, 250, 250, 250) => ~ret.v

\* growth_1yr is exactly the threshold, the other horizons are 0: it passes
C17_Witness ==
  /\ call.fn = "passes_threshold"
  /\ ret.set
  /\ call.r = RowOf(None, 0, MIN_GROWTH_THRESHOLD, 0, 0, 0)
  /\ ret.v

\* C18: for non-negative current and past, calculate_growth gives
\* MAX_GROWTH_CAP when past = 0 < current, 0 when both are 0, and otherwise
\* the growth g with g * past = (current - past) * 100 when that is at most
\* MAX_GROWTH_CAP, and MAX_GROWTH_CAP when it is more.
C18_CalculateGrowth ==
  (call.fn = "calculate_growth" /\ ret.set) =>
    LET c == call.current
        p == call.past
    IN  /\ (p = 0 /\ c > 0) => ret.v = MAX_GROWTH_CAP
        /\ (p = 0 /\ c = 0) => ret.v = 0
        /\ p > 0 =>
             /\ ret.v <= MAX_GROWTH_CAP
             /\ \/ ret.v * p = (c - p) * 100
                \/ ret.v = MAX_GROWTH_CAP /\ (c - p) * 100 > MAX_GROWTH_CAP * p

\* from 1 to 102 is more than a hundredfold: the growth is clamped at the cap
C18_Witness ==
  /\ call.fn = "calculate_growth"
  /\ ret.set
  /\ call.past = 1
  /\ (call.current - call.past) * 100 > MAX_GROWTH_CAP
  /\ ret.v = MAX_GROWTH_CAP

\* C19: the queue full_scan.main builds from the health keywords followed by
\* the discovered ones has no two tasks with the same lower-cased keyword, has
\* a task for every keyword of the two lists, and each of its tasks is the
\* first task of the concatenation with that lower-cased keyword, category
\* and spelling included, in the order of the concatenation.
C19_QueueDeduplicated ==
  (call.fn = "all_keywords" /\ ret.set) =>
    LET src == call.health \o call.discovered
        out == ret.v
        FirstOf(key) == CHOOSE j \in 1..Len(src) :
                          /\ Lower(src[j].keyword) = key
                          /\ \A m \in 1..(j - 1) : Lower(src[m].keyword) # key
    IN  /\ \A a, b \in 1..Len(out) :
             a # b => Lower(out[a].keyword) # Lower(out[b].keyword)
        /\ \A j \in 1..Len(src) :
             \E k \in 1..Len(out) : Lower(out[k].keyword) = Lower(src[j].keyword)
        /\ \A k \in 1..Len(out) :
             /\ \E j \in 1..Len(src) : Lower(src[j].keyword) = Lower(out[k].keyword)
             /\ out[k] = src[FirstOf(Lower(out[k].keyword))]
        /\ \A a, b \in 1..Len(out) :
             a < b => FirstOf(Lower(out[a].keyword)) < FirstOf(Lower(out[b].keyword))

\* 'pcos' among the discovered keywords is dropped after 'PCOS' and 'zinc'
\* of the health keywords
C19_Witness ==
  /\ call.fn = "all_keywords"
  /\ ret.set
  /\ call.health = << [keyword |-> "PCOS", category |-> "womens_health"],
                      [keyword |-> "zinc", category |-> "womens_health"] >>
  /\ call.discovered = << [keyword |-> "pcos", category |-> "discovered"],
                          [keyword |-> "zinc", category |-> "discovered"] >>
  /\ ret.v = call.health

\* C21: a result that went through the checkpoint file passes the threshold
\* in the resumed run exactly when it did in the run that produced it, that
\* is when it was error-free (error None then, an empty field in the file)
\* and one of its growths is at least MIN_GROWTH_THRESHOLD; so the qualifying
\* set of a resumed run is the one of an uninterrupted run.
C21_ResumeKeepsQualifying ==
  status = "running" =>
    \A k \in 1..loaded :
      passes_threshold(results[k]) <=>
        /\ ckptFile.rows[k].error = EmptyCell
        /\ \E h \in Horizons : results[k][h] >= MIN_GROWTH_THRESHOLD

\* the sample messages that contain '429' or, in any case, 'rate'
MatchesRatePattern(msg) == msg \in {Msg429, MsgRate, MsgLateRate}

\* C22: a failed attempt whose message contains '429' or, in any case, 'rate'
\* is backed off and, while attempts remain, followed by another attempt for
\* the same keyword (after the last attempt the max-retries marker is
\* returned); an attempt followed by another one failed with such a message;
\* a failure with any other message, a timeout included, is the last attempt
\* for the keyword and its message is what get_keyword_data returns.
C22_RetryIffRatePattern ==
  \A j \in 1..Len(attemptLog) :
    attemptLog[j].kind = "error" =>
      LET msg == attemptLog[j].msg
      IN  /\ j < Len(attemptLog) => MatchesRatePattern(msg)
          /\ (MatchesRatePattern(msg) /\ j = Len(attemptLog)) =>
               \/ pc = "backoff"
               \/ pc = "primary" /\ attempt = j /\ result.keyword = Last(called)
               \/ j = MAX_RETRIES /\ result.error = Str(MaxRetriesText)
          /\ ~MatchesRatePattern(msg) =>
               /\ j = Len(attemptLog)
               /\ pc \notin {"primary", "backoff", "sleep2", "related"}
               /\ result.error = Str(IF script = "full_scan"
                                     THEN Take(msg, ERROR_TRUNCATE) ELSE msg)

\* 'RATE' was retried, then a timeout ended the keyword
C22_Witness ==
  /\ pc = "append"
  /\ Len(attemptLog) = 2
  /\ attemptLog[1] = [kind |-> "error", msg |-> MsgRate]
  /\ attemptLog[2] = [kind |-> "error", msg |-> MsgTimeout]
  /\ result.error = Str(MsgTimeout)

\* the number of keywords between two periodic saves of the script
Interval == IF script = "full_scan" THEN CHECKPOINT_INTERVAL ELSE NS_CHECKPOINT_EVERY

\* the results held in memory that are not in the checkpoint file
Unsaved == Len(results) - Len(ckptFile.rows)

FileKeys(file) == {file.rows[k].keyword : k \in 1..Len(file.rows)}

C25_SaveReplacesFile ==
  (call.fn = "save_checkpoint" /\ ret.set /\ call.rs # <<>>) =>
    /\ ret.v.exists
    /\ Len(ret.v.rows) = Len(call.rs)
    /\ \A k \in 1..Len(call.rs) :
         /\ ret.v.rows[k].keyword = call.rs[k].keyword
         /\ ret.v.rows[k].category = call.rs[k].category
         /\ ret.v.rows[k].recommendation_score = call.rs[k].recommendation_score
         /\ \A h \in Horizons : ret.v.rows[k][h] = call.rs[k][h]
         /\ ret.v.rows[k].error =
              (IF call.rs[k].error = None THEN EmptyCell ELSE Txt(call.rs[k].error.s))
    /\ \A kw \in FileKeys(call.file) :
         kw \notin {call.rs[k].keyword : k \in 1..Len(call.rs)}
           => kw \notin FileKeys(ret.v)

\* a file that held 'PCOS' and 'vitex' holds 'zinc' alone after the save
C25_Witness ==
  /\ call.fn = "save_checkpoint"
  /\ ret.set
  /\ FileKeywords(call.file) = <<"PCOS", "vitex">>
  /\ Len(call.rs) = 1
  /\ call.rs[1].keyword = "zinc"
  /\ FileKeywords(ret.v) = <<"zinc">>

\* the sample of a series at a 0-based index
At0(df, idx) == df[idx + 1]

\* C26: for a series of L >= 1 samples get_time_periods gives the last sample
\* as current, the first sample as the 5yr value, and for the offsets 5, 13,
\* 26 and 52 the sample at the 0-based index L - offset when L > offset and
\* the first sample otherwise; from a single sample every growth is 0.
C26_TimePeriods ==
  /\ (call.fn = "get_time_periods" /\ ret.set) =>
       LET df == call.df
           L  == Len(df)
           Expect(offset) == IF L > offset THEN At0(df, L - offset) ELSE At0(df, 0)
       IN  /\ ret.v.current = At0(df, L - 1)
           /\ ret.v.ago_5yr = At0(df, 0)
           /\ ret.v.ago_1mo = Expect(5)
           /\ ret.v.ago_3mo = Expect(13)
           /\ ret.v.ago_6mo = Expect(26)
           /\ ret.v.ago_1yr = Expect(52)
  /\ (call.fn = "metrics" /\ ret.set /\ Len(call.df) = 1) =>
       \A h \in Horizons : ret.v[h] = 0

\* a series of 53 samples: the 1yr value is the second sample, not the first
C26_Witness ==
  /\ call.fn = "get_time_periods"
  /\ ret.set
  /\ call.df = [k \in 1..53 |-> k]
  /\ ret.v.ago_1yr = 2
  /\ ret.v.ago_6mo = 28
  /\ ret.v.current = 53

\* C27: every remote call of a run but the first comes after a sleep made
\* since the call before it: 2 s before related_queries, RETRY_DELAY before
\* another attempt for the same keyword, REQUEST_DELAY (after whatever else)
\* before the first attempt for the next keyword.
C27_SleepBetweenCalls ==
  /\ pc = "related" => sinceCall = <<RELATED_DELAY>>
  /\ (pc = "primary" /\ attempt > 0) => sinceCall = <<RETRY_DELAY>>
  /\ (pc = "primary" /\ attempt = 0 /\ Len(called) > 1) =>
       (sinceCall # <<>> /\ Last(sinceCall) = REQUEST_DELAY)
  /\ (pc = "primary" /\ sinceCall = <<>>) => (Len(called) = 1 /\ attemptLog = <<>>)

\* the second keyword is about to be fetched; the first was fetched with its
\* related queries
C27_Witness ==
  /\ pc = "primary"
  /\ Len(called) = 2
  /\ Len(results) = 1
  /\ results[1].related_queries # Str(<<>>)
  /\ sinceCall = <<REQUEST_DELAY>>

GrowthFields == {"growth_1mo", "growth_3mo", "growth_6mo", "growth_1yr", "growth_5yr"}
MetricsReturned == call.fn = "metrics" /\ ret.set
NonNegative(df) == \A k \in 1..Len(df) : df[k] >= 0

\* C28: for a series without negative values every growth field of the result
\* is between -100 and MAX_GROWTH_CAP percent, and so is the recommendation
\* score (kept in hundredths)
C28_GrowthAndScoreBounded ==
  (MetricsReturned /\ NonNegative(call.df)) =>
    /\ \A f \in GrowthFields : ret.v[f] >= -100 /\ ret.v[f] <= MAX_GROWTH_CAP
    /\ ret.v.recommendation_score >= -100 * 100
    /\ ret.v.recommendation_score <= MAX_GROWTH_CAP * 100

\* a series that falls to 0 (every growth -100, score -100) has been scored
C28_Witness ==
  /\ MetricsReturned /\ call.df = <<10, 0>>
  /\ \A f \in GrowthFields : ret.v[f] = -100
  /\ ret.v.recommendation_score = -100 * 100

ScoreReturned == call.fn = "calculate_score" /\ ret.set
PairsOf(g) == {g[k] : k \in 1..Len(g)}
\* a profile that holds the growth x on each of the five horizons
EqualGrowth(g, x) ==
  /\ {p.key : p \in PairsOf(g)} = GrowthFields
  /\ \A p \in PairsOf(g) : p.val = x
Abs(x) == IF x < 0 THEN -x ELSE x
WeightsSumToOne ==
  WEIGHTS["1mo"] + WEIGHTS["3mo"] + WEIGHTS["6mo"] + WEIGHTS["1yr"] + WEIGHTS["5yr"] = 100
WeightsDecreasing ==
  /\ WEIGHTS["1mo"] > WEIGHTS["3mo"] /\ WEIGHTS["3mo"] > WEIGHTS["6mo"]
  /\ WEIGHTS["6mo"] > WEIGHTS["1yr"] /\ WEIGHTS["1yr"] > WEIGHTS["5yr"]

\* C29 as stated: the weights sum to 1.0 and decrease strictly with the
\* horizon, and a profile with the growth g on every horizon has the score g
\* exactly
C29_EqualGrowthScoresG ==
  /\ WeightsSumToOne /\ WeightsDecreasing
  /\ ScoreReturned =>
       \A x \in {p.val : p \in PairsOf(call.g)} :
         EqualGrowth(call.g, x) => ret.v * 10 = x

\* C29: the weights sum to 1.0 and decrease strictly with the horizon, and a
\* profile with the growth g on every horizon has the score g rounded to two
\* decimals (the hundredth nearest to g)
C29_EqualGrowthScoresRoundedG ==
  /\ WeightsSumToOne /\ WeightsDecreasing
  /\ ScoreReturned =>
       \A x \in {p.val : p \in PairsOf(call.g)} :
         EqualGrowth(call.g, x) => 2 * Abs(ret.v * 10 - x) < 10

\* -57.142 percent on every horizon has been scored -57.14
C29_Witness ==
  /\ ScoreReturned /\ EqualGrowth(call.g, -57142)
  /\ ret.v = -5714

\* the weighted sum of a set of (key, value) pairs in hundred-thousandths, an absent
\* horizon counting 0
ValueIn(S, key) == IF \E p \in S : p.key = key THEN (CHOOSE p \in S : p.key = key).val ELSE 0
WeightedSumOf(S) ==
  30 * ValueIn(S, "growth_1mo") + 25 * ValueIn(S, "growth_3mo") +
  20 * ValueIn(S, "growth_6mo") + 15 * ValueIn(S, "growth_1yr") +
  10 * ValueIn(S, "growth_5yr")
Reordered(g) ==
  {[k \in 1..Len(g) |-> g[p[k]]] : p \in Permutations(1..Len(g))}

\* C30 as stated: the score is exactly the weighted sum of the five values,
\* an absent horizon counting 0, whatever the insertion order
C30_ScoreIsWeightedSum ==
  ScoreReturned =>
    /\ ret.v * 1000 = WeightedSumOf(PairsOf(call.g))
    /\ \A h \in Reordered(call.g) : calculate_score(h) = ret.v

\* C30: the score is the weighted sum of the five values rounded to two
\* decimals (the nearest hundredth), an absent horizon counting 0, and every
\* insertion order of the same pairs gives the same score
C30_ScoreIsRoundedWeightedSum ==
  ScoreReturned =>
    /\ 2 * Abs(ret.v * 1000 - WeightedSumOf(PairsOf(call.g))) < 1000
    /\ \A h \in Reordered(call.g) : calculate_score(h) = ret.v

\* a profile that lacks two horizons and was filled longest horizon first has
\* been scored: 0.15 * 333.333 + 0.20 * -57.142 + 0.30 * 333.333 = 138.57
C30_Witness ==
  /\ ScoreReturned
  /\ call.g = << [key |-> "growth_1yr", val |-> 333333],
                 [key |-> "growth_6mo", val |-> -57142],
                 [key |-> "growth_1mo", val |-> 333333] >>
  /\ ret.v = 13857

====
